---- MODULE Spec2Model ----
(***************************************************************************)
(* Model of wise-ntust/chat-server: the OAuth login / callback / token     *)
(* hand-off flow (src/auth), the identity, account and session services    *)
(* (src/db/services.py) and the friend-relationship handlers               *)
(* (src/friends/routes.py).                                                *)
(*                                                                         *)
(* Granularity.  Every route handler is an `async def` without an await:   *)
(* inside one server process it runs on the event loop from its first line *)
(* to its last, so two accesses to a process-wide dict that are not        *)
(* separated by a blocking call are one step.  The relational store and    *)
(* the document store are shared with every other server process, so a     *)
(* handler is cut at each statement it sends to a store (query, insert,    *)
(* commit, stored-function call): between two such statements the          *)
(* transactions of other requests may commit.                              *)
(***************************************************************************)
EXTENDS Integers, Sequences, FiniteSets, TLC

\* ------------------------------------------------------------------ bounds
MaxLogins == 2          \* login calls (CSRF states / client ids issued)
MaxCallbacks == 2       \* callback requests, all of which may be in flight

\* None of Python, for the integer-valued fields (ids, tokens)
None == 0

Emails == {"a@x", "b@x"}
Codes == {"code_ok", "code_bad"}
NoEmail == "none"

States == 1..MaxLogins          \* secrets.token_urlsafe(16) values
ClientIds == (MaxLogins + 1)..(2 * MaxLogins)   \* uuid4 values handed to CLI clients
Slots == 1..MaxCallbacks        \* callback requests

MaxSessions == 2        \* sessions issued in the session specification
TickDays == 15          \* days by which the clock advances in one step
MaxNow == 60            \* the clock stops here
MaxWorkers == 2         \* friend requests in flight together
MaxRows == 2            \* rows of user_friends at one time
MaxRooms == 1           \* conversation spaces ever provisioned

Workers == 1..MaxWorkers
\* the users of the friend and session specifications, each created by a login
KnownUsers == {[id |-> 1, email |-> "a@x"], [id |-> 2, email |-> "b@x"]}

VARIABLES
    active_states,          \* oauth.py:27   dict state -> True (its key set)
    pending_clients,        \* routes.py:22  dict state -> client_id
    client_token_storage,   \* routes.py:20  dict client_id -> token_data
    users,                  \* table "user": rows [id, email]
    accounts,               \* table "account": rows [id, userId, providerId, accessToken]
    sessions,               \* table "session": rows [token, userId, expiresAt]
    now,                    \* the clock, in days
    nLogins,                \* number of login calls so far
    calls,                  \* the callback requests: slot -> record
    handoffs,               \* history: the bundles get_token has returned
    validated,              \* the latest get_user_id_from_session call and its result
    upsert,                 \* the latest create_or_update_account call: its arguments,
                            \* the row it found and the row it left
    user_friends,           \* table user_friends: rows [id, user_id, friend_id, status,
                            \* chatroom_id], and the history field accepts: the number
                            \* of accept calls answered "accepted" for the row
    chatrooms,              \* collection chat.chatrooms: [id, creator_id, participants]
    workers,                \* the friend requests in flight: worker -> record
    response,               \* the answer a friend handler gave in the step just taken
    removedAccepted         \* history: pairs whose accepted relationship delete_friend removed

authVars == <<active_states, pending_clients, client_token_storage, nLogins,
              calls, handoffs>>
dbVars == <<users, accounts, sessions, now>>
friendVars == <<user_friends, chatrooms, workers, response, removedAccepted>>
vars == <<authVars, dbVars, validated, upsert, friendVars>>

Range(f) == {f[x] : x \in DOMAIN f}

\* token_data of oauth.py:96-104, 109, 133, 136.  token: the provider's access
\* token of this exchange (one per exchange: the slot's number).
NoBundle == [token |-> None, email |-> NoEmail, session_token |-> None, user_id |-> None]

IdleCall ==
    [pc |-> "idle", code |-> "code_ok", state |-> None, registered |-> FALSE,
     profile |-> NoEmail, user |-> None, is_new |-> FALSE, raced |-> FALSE,
     account |-> None, failed |-> "none",
     token_data |-> NoBundle, response |-> "none"]

NoValidation == [token |-> None, at |-> 0, user_id |-> None]

\* Python's None where a str is expected ("" is the empty string)
NoText == "<None>"

\* token_data["expires_in"]: absent, a datetime (n: its instant in seconds), a
\* number n, or a string
NoExpiresIn == [kind |-> "none", n |-> 0, text |-> ""]

\* token_data["scopes"]: absent or a list of strings
NoScopes == [list |-> FALSE, items |-> << >>]

\* the keys of token_data that create_or_update_account reads
NoAccountBundle ==
    [token |-> NoText, refresh_token |-> NoText, id_token |-> NoText,
     scopes |-> NoScopes, expires_in |-> NoExpiresIn]

NoAccount ==
    [id |-> None, userId |-> None, providerId |-> "none", accessToken |-> NoText,
     refreshToken |-> NoText, idToken |-> NoText, accessTokenExpiresAt |-> None,
     scope |-> NoText]

NoUpsert ==
    [user_id |-> None, token_data |-> NoAccountBundle, at |-> 0, login |-> None,
     before |-> NoAccount, after |-> NoAccount]

\* The state of the unordered pair {user, friend} as the caller `user` sees it:
\* pending and accepted rows in each direction, and the conversation references.
NoPair == [out_pending |-> 0, in_pending |-> 0, out_accepted |-> 0, in_accepted |-> 0,
           rooms |-> {}]

\* The credentials of a request: the Authorization header (its scheme and
\* what follows it) and the session_token cookie; None where absent or empty.
NoHeader == [scheme |-> "none", token |-> None]
NoCredential == [authorization |-> NoHeader, cookie |-> None]

IdleWorker ==
    [pc |-> "idle", cred |-> NoCredential, user |-> None, friend |-> None,
     seen |-> NoPair, chatroom_id |-> None]

NoResponse ==
    [op |-> "none", route |-> "none", cred |-> NoCredential, user |-> None,
     friend |-> None, result |-> "none", body |-> {},
     seen |-> NoPair, pre |-> NoPair, post |-> NoPair]

Init ==
    /\ active_states = {}
    /\ pending_clients = << >>
    /\ client_token_storage = << >>
    /\ users = {}
    /\ accounts = {}
    /\ sessions = {}
    /\ now = 0
    /\ nLogins = 0
    /\ calls = [r \in Slots |-> IdleCall]
    /\ handoffs = {}
    /\ validated = NoValidation
    /\ upsert = NoUpsert
    /\ user_friends = {}
    /\ chatrooms = {}
    /\ workers = [w \in Workers |-> IdleWorker]
    /\ response = NoResponse
    /\ removedAccepted = {}

\* ---------------------------------------------------------- CSRF ledger
\* oauth.py:63  active_states[state] = True
RegisterState(ledger, state) == ledger \cup {state}

\* the state check skipped
StateIsActive_NoCheck(ledger, state) == TRUE

\* oauth.py:84  state in active_states
StateIsActive(ledger, state) == state \in ledger

\* the used state left in the ledger
ConsumeState_Kept(ledger, state) == ledger

\* oauth.py:88  del active_states[state]
ConsumeState(ledger, state) == ledger \ {state}

\* ------------------------------------------------------- relational store
\* db.query(User).filter(User.email == email): the matching rows
UsersByEmail(email) == {u \in users : u.email = email}

\* the ids of the user table
UserIds == {u.id : u \in users}

\* uuid4 ids and tokens: a value no row carries yet (rows are never deleted)
FreshUserId == Cardinality(users) + 1
FreshAccountId == Cardinality(accounts) + 1
FreshSessionToken == Cardinality(sessions) + 1

SessionTtlDays == 30

\* oauth.py:62 secrets.token_urlsafe(16) and routes.py:39 uuid.uuid4(): values
\* never issued before; states and client ids are drawn from disjoint ranges.
FreshState == nLogins + 1
FreshClientId == MaxLogins + nLogins + 1

SetCall(r, rec) == calls' = [calls EXCEPT ![r] = rec]

\* ------------------------------------------------------------ GET /login
\* one pending client for the whole process: the latest login's
RegisterClient_Latest(pending, state, client_id) ==
    [s \in DOMAIN pending \cup {state} |-> client_id]

\* the login returning without the client id registered for its state
RegisterClient_Missing(pending, state, client_id) == pending

\* routes.py:41  pending_clients[state] = client_id
RegisterClient(pending, state, client_id) == (state :> client_id) @@ pending

\* routes.py:37-43  the client id the login call that issued the state
\* returned with it
IssuedWith(state) == MaxLogins + state

\* routes.py:27-43 with generate_auth_url (oauth.py:57-73): a fresh state is
\* registered in the ledger and mapped to a fresh client id.
Login ==
    /\ nLogins < MaxLogins
    /\ LET state == FreshState
           client_id == FreshClientId IN
       /\ active_states' = RegisterState(active_states, state)
       /\ pending_clients' = RegisterClient(pending_clients, state, client_id)
    /\ nLogins' = nLogins + 1
    /\ UNCHANGED <<validated, upsert, friendVars>>
    /\ UNCHANGED <<client_token_storage, calls, handoffs, dbVars>>

\* --------------------------------------------------------- GET /callback
\* the provider's refusal swallowed and the callback going on to the handoff
FailedExchange_Swallowed(call) == [call EXCEPT !.pc = "handoff"]

\* oauth.py:91-92  flow.fetch_token raises; nothing in exchange_code_for_token
\* or oauth_callback (routes.py:60) catches it and the request ends with it
FailedExchange(call) == [call EXCEPT !.pc = "done", !.response = "ExchangeFailed"]

\* routes.py:55-63 and oauth.py:83-109: the state check, the removal of the
\* state, the provider's token exchange and the profile fetch.  The provider
\* exchanges code_ok and refuses code_bad (fetch_token raises); the profile is
\* absent or without email (NoEmail) or carries an email.
CallbackBegin(r) ==
    /\ calls[r].pc = "idle"
    /\ \A q \in Slots : q < r => calls[q].pc # "idle"
    /\ \E code \in Codes, state \in States :
         LET c0 == [calls[r] EXCEPT !.code = code, !.state = state,
                                    !.registered = (state \in 1..nLogins)] IN
         IF ~StateIsActive(active_states, state)
         THEN /\ SetCall(r, [c0 EXCEPT !.pc = "done", !.response = "InvalidState"])
              /\ UNCHANGED active_states
         ELSE /\ active_states' = ConsumeState(active_states, state)
              /\ IF code = "code_bad"
                 THEN SetCall(r, FailedExchange(c0))
                 ELSE \E profile \in Emails \cup {NoEmail} :
                        SetCall(r, [c0 EXCEPT
                            !.profile = profile,
                            !.token_data = [NoBundle EXCEPT !.token = r, !.email = profile],
                            !.pc = IF profile = NoEmail THEN "handoff" ELSE "find"])
    /\ UNCHANGED <<validated, upsert, friendVars>>
    /\ UNCHANGED <<pending_clients, client_token_storage, nLogins, handoffs, dbVars>>

\* services.py:27-37  find_or_create_user: the lookup by email
FindUser(r) ==
    /\ calls[r].pc = "find"
    /\ IF UsersByEmail(calls[r].profile) = {}
       THEN SetCall(r, [calls[r] EXCEPT !.is_new = TRUE, !.pc = "insert"])
       ELSE \E u \in UsersByEmail(calls[r].profile) :
              SetCall(r, [calls[r] EXCEPT !.user = u.id, !.is_new = FALSE,
                                          !.pc = "acct_query"])
    /\ UNCHANGED <<validated, upsert, friendVars>>
    /\ UNCHANGED <<active_states, pending_clients, client_token_storage, nLogins,
                   handoffs, dbVars>>

\* services.py:38-52  db.add(user); db.commit(): the unique index on email
\* (database.py:49) makes the commit of a second row with the email raise
\* IntegrityError, and the handler rolls back.
InsertUser(r) ==
    /\ calls[r].pc = "insert"
    /\ IF UsersByEmail(calls[r].profile) = {}
       THEN /\ users' = users \cup {[id |-> FreshUserId, email |-> calls[r].profile]}
            /\ SetCall(r, [calls[r] EXCEPT !.user = FreshUserId, !.is_new = TRUE,
                                           !.pc = "acct_query"])
       ELSE /\ users' = users
            /\ SetCall(r, [calls[r] EXCEPT !.is_new = TRUE, !.raced = TRUE,
                                           !.pc = "requery"])
    /\ UNCHANGED <<validated, upsert, friendVars>>
    /\ UNCHANGED <<active_states, pending_clients, client_token_storage, nLogins,
                   handoffs, accounts, sessions, now>>

\* the loser of the race still reporting a new user
RequeriedUser_StillNew(call, u) == [call EXCEPT !.user = u.id]

\* services.py:55-58  user = the row found by the second lookup;
\* is_new_user = False
RequeriedUser(call, u) == [call EXCEPT !.user = u.id, !.is_new = FALSE]

\* services.py:53-57  the second lookup; when it finds nothing the
\* IntegrityError is raised again and caught at oauth.py:140.
RequeryUser(r) ==
    /\ calls[r].pc = "requery"
    /\ IF UsersByEmail(calls[r].profile) = {}
       THEN SetCall(r, [calls[r] EXCEPT !.pc = "handoff"])
       ELSE \E u \in UsersByEmail(calls[r].profile) :
              SetCall(r, [RequeriedUser(calls[r], u) EXCEPT !.pc = "acct_query"])
    /\ UNCHANGED <<validated, upsert, friendVars>>
    /\ UNCHANGED <<active_states, pending_clients, client_token_storage, nLogins,
                   handoffs, dbVars>>

\* services.py:69-73  create_or_update_account: the lookup of the account
AccountQuery(r) ==
    /\ calls[r].pc = "acct_query"
    /\ LET found == {a \in accounts : a.userId = calls[r].user /\ a.providerId = "google"} IN
       IF found = {}
       THEN SetCall(r, [calls[r] EXCEPT !.account = None, !.pc = "acct_write"])
       ELSE \E a \in found :
              SetCall(r, [calls[r] EXCEPT !.account = a.id, !.pc = "acct_write"])
    /\ UNCHANGED <<validated, upsert, friendVars>>
    /\ UNCHANGED <<active_states, pending_clients, client_token_storage, nLogins,
                   handoffs, dbVars>>

\* services.py:115-147  the insert of a new account or the update of the one
\* found, and the commit
AccountWrite(r) ==
    /\ calls[r].pc = "acct_write"
    /\ IF calls[r].account = None
       THEN accounts' = accounts \cup
                {[id |-> FreshAccountId, userId |-> calls[r].user,
                  providerId |-> "google", accessToken |-> calls[r].token_data.token]}
       ELSE accounts' = {IF a.id = calls[r].account
                         THEN [a EXCEPT !.accessToken = calls[r].token_data.token]
                         ELSE a : a \in accounts}
    /\ SetCall(r, [calls[r] EXCEPT !.pc = "session"])
    /\ UNCHANGED <<validated, upsert, friendVars>>
    /\ UNCHANGED <<active_states, pending_clients, client_token_storage, nLogins,
                   handoffs, users, sessions, now>>

\* the bundle naming the user without the session's token
BundleWithSession_NoToken(token_data, session_token, user_id) ==
    [token_data EXCEPT !.user_id = user_id]

\* oauth.py:132, 135  token_data["session_token"], token_data["user_id"]
BundleWithSession(token_data, session_token, user_id) ==
    [token_data EXCEPT !.session_token = session_token, !.user_id = user_id]

\* services.py:150-177 create_session and oauth.py:126-136
CreateSession(r) ==
    /\ calls[r].pc = "session"
    /\ sessions' = sessions \cup
            {[token |-> FreshSessionToken, userId |-> calls[r].user,
              expiresAt |-> now + SessionTtlDays]}
    /\ SetCall(r, [calls[r] EXCEPT
            !.token_data = BundleWithSession(@, FreshSessionToken, calls[r].user),
            !.pc = "handoff"])
    /\ UNCHANGED <<validated, upsert, friendVars>>
    /\ UNCHANGED <<active_states, pending_clients, client_token_storage, nLogins,
                   handoffs, users, accounts, now>>

\* the bundle filed under the state instead of the client id
HandoffKey_State(pending, state) == state

\* routes.py:72  client_id = pending_clients[state]
HandoffKey(pending, state) == pending[state]

\* routes.py:71-84  the bundle is stored under the client id of the state, or
\* returned as JSON when the state has none
CallbackHandoff(r) ==
    /\ calls[r].pc = "handoff"
    /\ IF calls[r].state \in DOMAIN pending_clients
       THEN /\ client_token_storage' =
                   [c \in DOMAIN client_token_storage
                            \cup {HandoffKey(pending_clients, calls[r].state)} |->
                       IF c = HandoffKey(pending_clients, calls[r].state)
                       THEN calls[r].token_data ELSE client_token_storage[c]]
            /\ SetCall(r, [calls[r] EXCEPT !.pc = "done", !.response = "HTML"])
       ELSE /\ UNCHANGED client_token_storage
            /\ SetCall(r, [calls[r] EXCEPT !.pc = "done", !.response = "JSON"])
    /\ UNCHANGED <<validated, upsert, friendVars>>
    /\ UNCHANGED <<active_states, pending_clients, nLogins, handoffs, dbVars>>

\* ------------------------------------------------- GET /token/{client_id}
\* the bundle left in the storage after the poll
RemoveBundle_Kept(storage, client_id) == storage

\* routes.py:95  del client_token_storage[client_id]
RemoveBundle(storage, client_id) ==
    [c \in DOMAIN storage \ {client_id} |-> storage[c]]

\* routes.py:87-98  get_token
GetToken(client_id) ==
    /\ IF client_id \in DOMAIN client_token_storage
       THEN /\ handoffs' = handoffs \cup
                    {[client_id |-> client_id, bundle |-> client_token_storage[client_id],
                      nth |-> Cardinality({h \in handoffs : h.client_id = client_id}) + 1]}
            /\ client_token_storage' = RemoveBundle(client_token_storage, client_id)
       ELSE UNCHANGED <<handoffs, client_token_storage>>
    /\ UNCHANGED <<validated, upsert, friendVars>>
    /\ UNCHANGED <<active_states, pending_clients, nLogins, calls, dbVars>>

Next ==
    \/ Login
    \/ \E r \in Slots : CallbackBegin(r)
    \/ \E r \in Slots : FindUser(r)
    \/ \E r \in Slots : InsertUser(r)
    \/ \E r \in Slots : RequeryUser(r)
    \/ \E r \in Slots : AccountQuery(r)
    \/ \E r \in Slots : AccountWrite(r)
    \/ \E r \in Slots : CreateSession(r)
    \/ \E r \in Slots : CallbackHandoff(r)
    \/ \E c \in ClientIds : GetToken(c)

Spec == Init /\ [][Next]_vars

\* The client of a login polls GET /token/{client_id} until it is answered
\* with the bundle: a poll that would fetch a stored bundle is not put off
\* forever.
SpecPolling == Init /\ [][Next]_vars /\ \A c \in ClientIds : WF_vars(GetToken(c))

\* ------------------------------------------------- the store may fail
\* The steps of the persistence chain of oauth.py:112-139, each of which is a
\* statement against the relational store that can raise (connection lost,
\* constraint violated).
PersistenceSteps == {"find", "insert", "requery", "acct_query", "acct_write", "session"}

\* the handler letting the exception through: the request ends with a 500
CaughtPersistenceError_Raised(call) ==
    [call EXCEPT !.failed = call.pc, !.pc = "done", !.response = "ServerError"]

\* oauth.py:140-145  except Exception: three log lines; return token_data
CaughtPersistenceError(call) ==
    [call EXCEPT !.failed = call.pc, !.pc = "handoff"]

\* a statement of the chain raises; nothing of it is written
StoreFails(r) ==
    /\ calls[r].pc \in PersistenceSteps
    /\ SetCall(r, CaughtPersistenceError(calls[r]))
    /\ UNCHANGED <<validated, upsert, friendVars>>
    /\ UNCHANGED <<active_states, pending_clients, client_token_storage, nLogins,
                   handoffs, dbVars>>

NextStoreFaults ==
    \/ Next
    \/ \E r \in Slots : StoreFails(r)

SpecStoreFaults == Init /\ [][NextStoreFaults]_vars

\* ------------------------------------------------------ session validation
\* the expiry compared with >= instead of >
SessionIsLive_Inclusive(s, token, t) == s.token = token /\ s.expiresAt >= t

\* services.py:189-192  filter(token == session_token, expiresAt > now)
SessionIsLive(s, token, t) == s.token = token /\ s.expiresAt > t

\* services.py:185-199  get_user_id_from_session: the rows .first() may return
LiveSessions(token) == {s \in sessions : SessionIsLive(s, token, now)}

\* The tokens a caller can present: the issued ones and one that is never
\* issued (a uuid4 issued later is not a value anyone presented before).
UnknownToken == MaxSessions + MaxCallbacks + 1
PresentableTokens == {s.token : s \in sessions} \cup {UnknownToken}

\* The credentials a request can carry: no header, a Bearer header (with an
\* issued or an unknown token, or with nothing after "Bearer "), a header of
\* another scheme carrying an issued token; no cookie or a cookie with an
\* issued token.
AllCredentials ==
    {[authorization |-> h, cookie |-> c] :
        h \in {NoHeader}
                \cup {[scheme |-> "Bearer", token |-> t] : t \in PresentableTokens \cup {None}}
                \cup {[scheme |-> "Basic", token |-> s.token] : s \in sessions},
        c \in {s.token : s \in sessions} \cup {None}}

\* the requests of a client that sends its token as a Bearer header only
BearerCredentials ==
    {[authorization |-> [scheme |-> "Bearer", token |-> t], cookie |-> None] :
        t \in PresentableTokens}

\* the cookie looked at first
CredentialToken_CookieFirst(cred) ==
    IF cred.cookie # None THEN cred.cookie
    ELSE IF cred.authorization.scheme = "Bearer" THEN cred.authorization.token
    ELSE None

\* dependencies.py:19-26  the token of the Bearer header, else of the cookie
CredentialToken(cred) ==
    LET token == IF cred.authorization.scheme = "Bearer"
                 THEN cred.authorization.token ELSE None IN
    IF token # None THEN token ELSE cred.cookie

\* dependencies.py:28-43  the user id get_user_id_from_session returns for
\* the token; none (401) without a token or without a live session
Authenticated(cred) ==
    IF CredentialToken(cred) = None THEN {}
    ELSE {s.userId : s \in LiveSessions(CredentialToken(cred))}

\* the six routes of the friends router
FriendRoutes == {"friends", "send", "requests", "accept", "reject", "delete"}

InitSession ==
    /\ active_states = {} /\ pending_clients = << >> /\ client_token_storage = << >>
    /\ users = KnownUsers
    /\ accounts = {} /\ sessions = {} /\ now = 0 /\ nLogins = 0
    /\ calls = [r \in Slots |-> IdleCall]
    /\ handoffs = {}
    /\ validated = NoValidation
    /\ upsert = NoUpsert
    /\ user_friends = {} /\ chatrooms = {}
    /\ workers = [w \in Workers |-> IdleWorker]
    /\ response = NoResponse
    /\ removedAccepted = {}

\* services.py:150-177  create_session(db, user_id) with the default
\* expires_in of 30 days
IssueSession(user_id) ==
    /\ Cardinality(sessions) < MaxSessions
    /\ sessions' = sessions \cup
            {[token |-> FreshSessionToken, userId |-> user_id,
              expiresAt |-> now + SessionTtlDays]}
    /\ UNCHANGED <<authVars, users, accounts, now, validated, upsert, friendVars>>

\* the clock of datetime.now(timezone.utc)
Tick ==
    /\ now + TickDays <= MaxNow
    /\ now' = now + TickDays
    /\ UNCHANGED <<authVars, users, accounts, sessions, validated, upsert, friendVars>>

\* services.py:185-199  get_user_id_from_session(db, session_token)
ValidateSession(token) ==
    /\ IF LiveSessions(token) = {}
       THEN validated' = [token |-> token, at |-> now, user_id |-> None]
       ELSE \E s \in LiveSessions(token) :
              validated' = [token |-> token, at |-> now, user_id |-> s.userId]
    /\ UNCHANGED <<authVars, dbVars, upsert, friendVars>>

NextSession ==
    \/ \E u \in UserIds : IssueSession(u)
    \/ Tick
    \/ \E token \in PresentableTokens : ValidateSession(token)

SpecSession == InitSession /\ [][NextSession]_vars

\* ----------------------------------------------------------------- friends
\* The rows of the unordered pair {a, b}
PairRows(rows, a, b) ==
    {r \in rows : \/ (r.user_id = a /\ r.friend_id = b)
                  \/ (r.user_id = b /\ r.friend_id = a)}

DirectedRows(rows, from, to, status) ==
    {r \in rows : r.user_id = from /\ r.friend_id = to /\ r.status = status}

PairState(rows, user, friend) ==
    [out_pending |-> Cardinality(DirectedRows(rows, user, friend, "pending")),
     in_pending |-> Cardinality(DirectedRows(rows, friend, user, "pending")),
     out_accepted |-> Cardinality(DirectedRows(rows, user, friend, "accepted")),
     in_accepted |-> Cardinality(DirectedRows(rows, friend, user, "accepted")),
     rooms |-> {r.chatroom_id : r \in PairRows(rows, user, friend)}]

\* the duplicate check looking in the caller's direction only
FriendshipRows_OneWay(rows, userId, friendId) ==
    {r \in rows : r.user_id = userId /\ r.friend_id = friendId}

\* friends/routes.py:84-94  the rows of the pair in either direction
FriendshipRows(rows, userId, friendId) ==
    {r \in rows : \/ (r.user_id = userId /\ r.friend_id = friendId)
                  \/ (r.user_id = friendId /\ r.friend_id = userId)}

\* the sender and the receiver exchanged
AcceptCheckArgs_Swapped(user_id, friend_id) ==
    [sender_id |-> user_id, receiver_id |-> friend_id]

\* friends/routes.py:200-206  the parameters of the check query
AcceptCheckArgs(user_id, friend_id) ==
    [sender_id |-> friend_id, receiver_id |-> user_id]

\* the check matching a pending row of the pair in either direction
PendingRequestRows_EitherWay(rows, args) ==
    DirectedRows(rows, args.sender_id, args.receiver_id, "pending")
        \cup DirectedRows(rows, args.receiver_id, args.sender_id, "pending")

\* friends/routes.py:192-207  EXISTS (a pending row sender -> receiver)
PendingRequestRows(rows, args) ==
    DirectedRows(rows, args.sender_id, args.receiver_id, "pending")

\* the conversation reference left out of the parameters
AcceptFnArgs_NoRoom(user_id, friend_id, chatroom_id) ==
    [p_user_id |-> user_id, p_friend_id |-> friend_id, p_chatroom_id |-> None]

\* friends/routes.py:219-226  the parameters of the stored function
AcceptFnArgs(user_id, friend_id, chatroom_id) ==
    [p_user_id |-> user_id, p_friend_id |-> friend_id, p_chatroom_id |-> chatroom_id]

\* the answer of the stored function ignored
ReportsAccepted_Always(accepted) == TRUE

\* friends/routes.py:227-232  accepted = result.fetchone()[0];
\* if not accepted: raise 404
ReportsAccepted(accepted) == accepted

\* db.commit() left out: the transaction is rolled back when the session closes
CommitReject_Missing(written, before) == before
CommitSend_Missing(written, before) == before
CommitDelete_Missing(written, before) == before

\* friends/routes.py:112, 234, 267, 304  db.commit()
CommitSend(written, before) == written
CommitAccept(written, before) == written
CommitReject(written, before) == written
CommitDelete(written, before) == written

\* The stored functions of the database are not part of the sources; they are
\* modelled from the specification, section 4.6.
\* send_friend_request(userId, friendId): inserts a pending row user -> friend
SendFriendRequestFn(rows, id, userId, friendId) ==
    rows \cup {[id |-> id, user_id |-> userId, friend_id |-> friendId,
                status |-> "pending", chatroom_id |-> None, accepts |-> 0]}

\* accept_friend_request(p_user_id, p_friend_id, p_chatroom_id): the pending
\* rows p_friend_id -> p_user_id become accepted and record the conversation
\* reference (an update conditional on the current status)
AcceptFriendRequestFn(rows, p_user_id, p_friend_id, p_chatroom_id) ==
    {IF r \in DirectedRows(rows, p_friend_id, p_user_id, "pending")
     THEN [r EXCEPT !.status = "accepted", !.chatroom_id = p_chatroom_id]
     ELSE r : r \in rows}

\* reject_friend_request(userId, friendId) and remove_friend(userId, friendId):
\* the rows of the unordered pair are deleted
RejectFriendRequestFn(rows, userId, friendId) == rows \ PairRows(rows, userId, friendId)
RemoveFriendFn(rows, userId, friendId) == rows \ PairRows(rows, userId, friendId)

\* the primary key of a new row: a value no row of the table carries (the
\* rows of a pair are only ever deleted together)
FreshRowId(userId, friendId) ==
    <<userId, friendId,
      Cardinality({r \in user_friends : r.user_id = userId /\ r.friend_id = friendId}) + 1>>

\* the friend_email values tried: those of the users and one of nobody
FriendEmails == {u.email : u \in users} \cup {"nobody@x"}

\* a new request is taken by the first free worker
FreeWorker(w) ==
    /\ workers[w].pc = "idle"
    /\ \A q \in Workers : q < w => workers[q].pc # "idle"

InitFriends ==
    /\ active_states = {} /\ pending_clients = << >> /\ client_token_storage = << >>
    /\ users = KnownUsers
    /\ accounts = {}
    /\ sessions = {[token |-> u.id, userId |-> u.id, expiresAt |-> SessionTtlDays] :
                      u \in KnownUsers}
    /\ now = 0 /\ nLogins = 0
    /\ calls = [r \in Slots |-> IdleCall]
    /\ handoffs = {}
    /\ validated = NoValidation
    /\ upsert = NoUpsert
    /\ user_friends = {} /\ chatrooms = {}
    /\ workers = [w \in Workers |-> IdleWorker]
    /\ response = NoResponse
    /\ removedAccepted = {}

\* the handler returns or raises: the answer is recorded (with the state of the
\* pair its first query saw, and before and after its last step), the worker
\* is free
Answer(w, op, cred, user, friend, result, seen, pre, post) ==
    /\ response' = [op |-> op, route |-> op, cred |-> cred, user |-> user,
                    friend |-> friend, result |-> result, body |-> {},
                    seen |-> seen, pre |-> pre, post |-> post]
    /\ workers' = [workers EXCEPT ![w] = IdleWorker]

Proceed(w, pc, cred, user, friend, seen) ==
    /\ workers' = [workers EXCEPT ![w] =
            [pc |-> pc, cred |-> cred, user |-> user, friend |-> friend, seen |-> seen,
             chatroom_id |-> None]]
    /\ response' = NoResponse

\* auth/dependencies.py:10-43  get_current_user_id raises 401 before the
\* handler of the route runs
UnauthorizedWith(w, creds) ==
    /\ FreeWorker(w)
    /\ \E cred \in creds, route \in FriendRoutes :
         /\ Authenticated(cred) = {}
         /\ response' = [NoResponse EXCEPT !.op = "auth", !.route = route,
                                           !.cred = cred, !.result = "Unauthorized"]
         /\ workers' = [workers EXCEPT ![w] = IdleWorker]
    /\ UNCHANGED <<authVars, dbVars, validated, upsert, user_friends, chatrooms,
                   removedAccepted>>

Unauthorized(w) == UnauthorizedWith(w, BearerCredentials)

\* friends/routes.py:57-104  send_friend_request up to the duplicate check
SendCheckWith(w, creds) ==
    /\ FreeWorker(w)
    /\ \E cred \in creds, friend_email \in FriendEmails :
         \E authenticated \in Authenticated(cred) :
           LET user_id == authenticated IN
           IF UsersByEmail(friend_email) = {}
           THEN Answer(w, "send", cred, user_id, None, "TargetNotFound", NoPair, NoPair, NoPair)
           ELSE \E fu \in UsersByEmail(friend_email) :
                  LET friend_id == fu.id
                      pre == PairState(user_friends, user_id, friend_id)
                      existing == FriendshipRows(user_friends, user_id, friend_id) IN
                  IF user_id = friend_id
                  THEN Answer(w, "send", cred, user_id, friend_id, "SelfReferential", pre, pre, pre)
                  ELSE IF existing = {}
                  THEN Proceed(w, "send_insert", cred, user_id, friend_id, pre)
                  ELSE \E existing_friendship \in existing :
                         IF existing_friendship.status = "accepted"
                         THEN Answer(w, "send", cred, user_id, friend_id, "AlreadyFriends",
                                     pre, pre, pre)
                         ELSE IF existing_friendship.status = "pending"
                         THEN Answer(w, "send", cred, user_id, friend_id, "RequestAlreadyPending",
                                     pre, pre, pre)
                         ELSE Proceed(w, "send_insert", cred, user_id, friend_id, pre)
    /\ UNCHANGED <<authVars, dbVars, validated, upsert, user_friends, chatrooms,
                   removedAccepted>>

SendCheck(w) == SendCheckWith(w, BearerCredentials)

\* friends/routes.py:105-114  the stored function inserts the row; commit
SendInsert(w) ==
    /\ workers[w].pc = "send_insert"
    /\ Cardinality(user_friends) < MaxRows
    /\ user_friends' = CommitSend(
            SendFriendRequestFn(user_friends, FreshRowId(workers[w].user, workers[w].friend),
                                workers[w].user, workers[w].friend),
            user_friends)
    /\ Answer(w, "send", workers[w].cred, workers[w].user, workers[w].friend, "RequestSent",
              workers[w].seen,
              PairState(user_friends, workers[w].user, workers[w].friend),
              PairState(user_friends', workers[w].user, workers[w].friend))
    /\ UNCHANGED <<authVars, dbVars, validated, upsert, chatrooms, removedAccepted>>

\* friends/routes.py:180-210  accept_friend_request up to the check query
AcceptCheckWith(w, creds) ==
    /\ FreeWorker(w)
    /\ \E cred \in creds, friend_id \in UserIds :
         \E authenticated \in Authenticated(cred) :
           LET user_id == authenticated
               pre == PairState(user_friends, user_id, friend_id)
               found == PendingRequestRows(user_friends, AcceptCheckArgs(user_id, friend_id)) IN
           IF found = {}
           THEN Answer(w, "accept", cred, user_id, friend_id, "RequestNotFound", pre, pre, pre)
           ELSE Proceed(w, "accept_room", cred, user_id, friend_id, pre)
    /\ UNCHANGED <<authVars, dbVars, validated, upsert, user_friends, chatrooms,
                   removedAccepted>>

AcceptCheck(w) == AcceptCheckWith(w, BearerCredentials)

\* friends/routes.py:153-177, 212  create_chatroom: the id of the inserted
\* document, or None when the document store fails
AcceptRoom(w) ==
    /\ workers[w].pc = "accept_room"
    /\ \/ /\ Cardinality(chatrooms) < MaxRooms
          /\ chatrooms' = chatrooms \cup
                {[id |-> Cardinality(chatrooms) + 1, creator_id |-> workers[w].user,
                  participants |-> <<workers[w].user, workers[w].friend>>]}
          /\ workers' = [workers EXCEPT ![w].pc = "accept_commit",
                                        ![w].chatroom_id = Cardinality(chatrooms) + 1]
       \/ /\ chatrooms' = chatrooms
          /\ workers' = [workers EXCEPT ![w].pc = "accept_commit",
                                        ![w].chatroom_id = None]
    /\ response' = NoResponse
    /\ UNCHANGED <<authVars, dbVars, validated, upsert, user_friends, removedAccepted>>

\* friends/routes.py:214-235  the stored function, its answer, the commit
AcceptCommit(w) ==
    /\ workers[w].pc = "accept_commit"
    /\ LET user_id == workers[w].user
           friend_id == workers[w].friend
           pre == PairState(user_friends, user_id, friend_id)
           hit == DirectedRows(user_friends, friend_id, user_id, "pending")
           args == AcceptFnArgs(user_id, friend_id, workers[w].chatroom_id)
           written == AcceptFriendRequestFn(user_friends, args.p_user_id,
                                            args.p_friend_id, args.p_chatroom_id)
           claimed == IF hit # {} THEN {r.id : r \in hit}
                      ELSE {r.id : r \in DirectedRows(user_friends, friend_id, user_id,
                                                      "accepted")} IN
       IF ReportsAccepted(hit # {})
       THEN /\ user_friends' = {IF r.id \in claimed THEN [r EXCEPT !.accepts = @ + 1] ELSE r :
                                    r \in CommitAccept(written, user_friends)}
            /\ Answer(w, "accept", workers[w].cred, user_id, friend_id, "Accepted",
                      workers[w].seen, pre,
                      PairState(user_friends', user_id, friend_id))
       ELSE /\ UNCHANGED user_friends
            /\ Answer(w, "accept", workers[w].cred, user_id, friend_id,
                      "RequestNotFound", workers[w].seen, pre, pre)
    /\ UNCHANGED <<authVars, dbVars, validated, upsert, chatrooms, removedAccepted>>

\* friends/routes.py:245-276  reject_friend_request
RejectWith(w, creds) ==
    /\ FreeWorker(w)
    /\ \E cred \in creds, friend_id \in UserIds :
         \E authenticated \in Authenticated(cred) :
           LET user_id == authenticated
               pre == PairState(user_friends, user_id, friend_id)
               rejected == PairRows(user_friends, user_id, friend_id) # {} IN
           IF ~rejected
           THEN /\ UNCHANGED user_friends
                /\ Answer(w, "reject", cred, user_id, friend_id, "RelationshipNotFound",
                          pre, pre, pre)
           ELSE /\ user_friends' = CommitReject(
                        RejectFriendRequestFn(user_friends, user_id, friend_id),
                        user_friends)
                /\ Answer(w, "reject", cred, user_id, friend_id, "Rejected", pre, pre,
                          PairState(user_friends', user_id, friend_id))
    /\ UNCHANGED <<authVars, dbVars, validated, upsert, chatrooms, removedAccepted>>

Reject(w) == RejectWith(w, BearerCredentials)

\* friends/routes.py:279-313  delete_friend
DeleteWith(w, creds) ==
    /\ FreeWorker(w)
    /\ \E cred \in creds, friend_id \in UserIds :
         \E authenticated \in Authenticated(cred) :
           LET user_id == authenticated
               pre == PairState(user_friends, user_id, friend_id)
               removed == PairRows(user_friends, user_id, friend_id) # {} IN
           IF friend_id = user_id
           THEN /\ UNCHANGED <<user_friends, removedAccepted>>
                /\ Answer(w, "delete", cred, user_id, friend_id, "CannotDeleteYourself",
                          pre, pre, pre)
           ELSE IF ~removed
           THEN /\ UNCHANGED <<user_friends, removedAccepted>>
                /\ Answer(w, "delete", cred, user_id, friend_id, "RelationshipNotFound",
                          pre, pre, pre)
           ELSE /\ user_friends' = CommitDelete(
                        RemoveFriendFn(user_friends, user_id, friend_id), user_friends)
                /\ removedAccepted' =
                        IF pre.out_accepted + pre.in_accepted > 0
                              /\ PairRows(user_friends', user_id, friend_id) = {}
                        THEN removedAccepted \cup {{user_id, friend_id}}
                        ELSE removedAccepted
                /\ Answer(w, "delete", cred, user_id, friend_id, "Deleted", pre, pre,
                          PairState(user_friends', user_id, friend_id))
    /\ UNCHANGED <<authVars, dbVars, validated, upsert, chatrooms>>

Delete(w) == DeleteWith(w, BearerCredentials)

NextFriends ==
    \/ \E w \in Workers : Unauthorized(w)
    \/ \E w \in Workers : SendCheck(w)
    \/ \E w \in Workers : SendInsert(w)
    \/ \E w \in Workers : AcceptCheck(w)
    \/ \E w \in Workers : AcceptRoom(w)
    \/ \E w \in Workers : AcceptCommit(w)
    \/ \E w \in Workers : Reject(w)
    \/ \E w \in Workers : Delete(w)

SpecFriends == InitFriends /\ [][NextFriends]_vars

\* ------------------------------------------------ friends, all six routes
\* friends/routes.py:36-49  the accepted rows user -> friend joined with the
\* friend's user row
FriendsOf(rows, userId) ==
    {[id |-> r.friend_id, chatroom_id |-> r.chatroom_id] :
        r \in {x \in rows : /\ x.user_id = userId /\ x.status = "accepted"
                             /\ x.friend_id \in UserIds}}

\* friends/routes.py:131-145  the pending rows sender -> user joined with the
\* sender's user row
IncomingRequestsOf(rows, userId) ==
    {[id |-> r.user_id, requestId |-> r.id] :
        r \in {x \in rows : /\ x.friend_id = userId /\ x.status = "pending"
                             /\ x.user_id \in UserIds}}

\* friends/routes.py:30-54  get_friends
GetFriendsWith(w, creds) ==
    /\ FreeWorker(w)
    /\ \E cred \in creds :
         \E user_id \in Authenticated(cred) :
           response' = [NoResponse EXCEPT !.op = "friends", !.route = "friends",
                            !.cred = cred, !.user = user_id, !.result = "OK",
                            !.body = FriendsOf(user_friends, user_id)]
    /\ workers' = [workers EXCEPT ![w] = IdleWorker]
    /\ UNCHANGED <<authVars, dbVars, validated, upsert, user_friends, chatrooms,
                   removedAccepted>>

\* friends/routes.py:125-150  get_friend_requests
GetFriendRequestsWith(w, creds) ==
    /\ FreeWorker(w)
    /\ \E cred \in creds :
         \E user_id \in Authenticated(cred) :
           response' = [NoResponse EXCEPT !.op = "requests", !.route = "requests",
                            !.cred = cred, !.user = user_id, !.result = "OK",
                            !.body = IncomingRequestsOf(user_friends, user_id)]
    /\ workers' = [workers EXCEPT ![w] = IdleWorker]
    /\ UNCHANGED <<authVars, dbVars, validated, upsert, user_friends, chatrooms,
                   removedAccepted>>

\* The six routes served one request at a time, with every kind of
\* credentials; user 1 also holds a session that has expired.
ExpiredToken == MaxSessions + MaxCallbacks + 2

InitRoutes ==
    /\ active_states = {} /\ pending_clients = << >> /\ client_token_storage = << >>
    /\ users = KnownUsers
    /\ accounts = {}
    /\ sessions = {[token |-> u.id, userId |-> u.id, expiresAt |-> SessionTtlDays] :
                      u \in KnownUsers}
                  \cup {[token |-> ExpiredToken, userId |-> 1, expiresAt |-> 0]}
    /\ now = 0 /\ nLogins = 0
    /\ calls = [r \in Slots |-> IdleCall]
    /\ handoffs = {}
    /\ validated = NoValidation
    /\ upsert = NoUpsert
    /\ user_friends = {} /\ chatrooms = {}
    /\ workers = [w \in Workers |-> IdleWorker]
    /\ response = NoResponse
    /\ removedAccepted = {}

NextRoutes ==
    \/ UnauthorizedWith(1, AllCredentials)
    \/ GetFriendsWith(1, AllCredentials)
    \/ SendCheckWith(1, AllCredentials)
    \/ SendInsert(1)
    \/ GetFriendRequestsWith(1, AllCredentials)
    \/ AcceptCheckWith(1, AllCredentials)
    \/ AcceptRoom(1)
    \/ AcceptCommit(1)
    \/ RejectWith(1, AllCredentials)
    \/ DeleteWith(1, AllCredentials)

SpecRoutes == InitRoutes /\ [][NextRoutes]_vars

\* --------------------------------------------- sign-in, then GET /friends
\* Two users who are friends exist when the first login is made; a callback
\* signs in one of them (b@x) or a user not seen before (a@x), and the
\* session token of the bundle is then used as a Bearer token on GET /friends.
OldUsers == {[id |-> 1, email |-> "b@x"], [id |-> 2, email |-> "d@x"]}

InitEndToEnd ==
    /\ active_states = {} /\ pending_clients = << >> /\ client_token_storage = << >>
    /\ users = OldUsers
    /\ accounts = {} /\ sessions = {}
    /\ now = 0 /\ nLogins = 0
    /\ calls = [r \in Slots |-> IdleCall]
    /\ handoffs = {}
    /\ validated = NoValidation
    /\ upsert = NoUpsert
    /\ user_friends = {[id |-> <<1, 2, 1>>, user_id |-> 1, friend_id |-> 2,
                        status |-> "accepted", chatroom_id |-> None, accepts |-> 1]}
    /\ chatrooms = {}
    /\ workers = [w \in Workers |-> IdleWorker]
    /\ response = NoResponse
    /\ removedAccepted = {}

NextEndToEnd ==
    \/ Next
    \/ GetFriendsWith(1, BearerCredentials)

SpecEndToEnd == InitEndToEnd /\ [][NextEndToEnd]_vars

\* ------------------------------------------- friends, three users, in turn
\* The friend operations over three users, so that a pair has neighbours; the
\* requests are served one at a time.  The third user holds no live session:
\* it is the target of requests and makes none.
ThirdUser == [id |-> 3, email |-> "c@x"]

InitRemoval ==
    /\ active_states = {} /\ pending_clients = << >> /\ client_token_storage = << >>
    /\ users = KnownUsers \cup {ThirdUser}
    /\ accounts = {}
    /\ sessions = {[token |-> u.id, userId |-> u.id, expiresAt |-> SessionTtlDays] :
                      u \in KnownUsers}
    /\ now = 0 /\ nLogins = 0
    /\ calls = [r \in Slots |-> IdleCall]
    /\ handoffs = {}
    /\ validated = NoValidation
    /\ upsert = NoUpsert
    /\ user_friends = {} /\ chatrooms = {}
    /\ workers = [w \in Workers |-> IdleWorker]
    /\ response = NoResponse
    /\ removedAccepted = {}

NextRemoval ==
    \/ SendCheck(1)
    \/ SendInsert(1)
    \/ AcceptCheck(1)
    \/ AcceptRoom(1)
    \/ AcceptCommit(1)
    \/ Reject(1)
    \/ Delete(1)

SpecRemoval == InitRemoval /\ [][NextRemoval]_vars

\* ------------------------------------------------------------ properties
\* The callback requests take their slots in the order of their state checks
\* (CallbackBegin), so q < r says that q's check came before r's.
Started(r) == calls[r].pc # "idle"
PassedStateCheck(r) == Started(r) /\ calls[r].response # "InvalidState"
Resolved(r) == calls[r].user # None

\* C1: a callback passes the state check exactly when its state was registered
\* by a login and no earlier callback carried that registered state; every
\* other callback (a later one with the same state, whatever its code, or one
\* whose state was never registered) answers InvalidState, and a state that a
\* callback has passed with is no longer in the ledger.
C1_StateConsumedOnce ==
    \A r \in Slots : Started(r) =>
        /\ PassedStateCheck(r) <=>
              /\ calls[r].registered
              /\ \A q \in Slots : (q < r /\ calls[q].state = calls[r].state)
                                      => ~calls[q].registered
        /\ PassedStateCheck(r) => calls[r].state \notin active_states

C1_Witness ==
    \E q, r \in Slots :
        /\ q < r /\ calls[q].state = calls[r].state
        /\ calls[q].pc = "done" /\ calls[q].response = "HTML"
        /\ calls[r].registered /\ calls[r].response = "InvalidState"
        /\ calls[q].code # calls[r].code

\* C6: for every email, whatever the interleaving of the resolutions, at most
\* one user row carries it; among the resolutions that have returned exactly
\* one reports a new user, all return the id of that one row, and a resolution
\* that lost the insert race returns it with is_new = FALSE instead of failing.
C6_OneUserPerEmail ==
    \A e \in Emails :
        LET resolved == {r \in Slots : calls[r].profile = e /\ Resolved(r)} IN
        /\ Cardinality(UsersByEmail(e)) <= 1
        /\ resolved # {} =>
              /\ Cardinality({r \in resolved : calls[r].is_new}) = 1
              /\ \A r \in resolved : \E u \in UsersByEmail(e) : calls[r].user = u.id
        /\ \A r \in Slots :
              (calls[r].profile = e /\ calls[r].pc \in {"acct_query", "acct_write",
                                                        "session", "handoff", "done"})
                  => Resolved(r) /\ (calls[r].raced => ~calls[r].is_new)

C6_Witness ==
    \E q, r \in Slots :
        /\ q # r /\ calls[q].profile = calls[r].profile
        /\ calls[q].is_new /\ Resolved(q)
        /\ calls[r].raced /\ Resolved(r) /\ ~calls[r].is_new
        /\ calls[r].user = calls[q].user

\* C9: of the callbacks that carried a state while it was registered, also
\* when they are in flight together, exactly one passed the state check.
C9_OneCallerPerState ==
    \A s \in States :
        LET carrying == {r \in Slots : Started(r) /\ calls[r].state = s
                                        /\ calls[r].registered} IN
        carrying # {} => Cardinality({r \in carrying : PassedStateCheck(r)}) = 1

C9_Witness ==
    \E q, r \in Slots :
        /\ q # r /\ calls[q].state = calls[r].state
        /\ PassedStateCheck(q) /\ calls[q].pc \notin {"idle", "done"}
        /\ calls[r].pc = "done" /\ calls[r].response = "InvalidState"

\* C10: get_token returns a stored bundle at most once: no two polls were
\* answered with a bundle for the same client id or with the same bundle, and
\* a client id that was answered with a bundle holds none in the storage.
C10_BundleDeliveredOnce ==
    /\ \A g, h \in handoffs : g # h =>
          /\ g.client_id # h.client_id
          /\ g.bundle.token # h.bundle.token
    /\ \A h \in handoffs :
          h.nth = 1 /\ h.client_id \notin DOMAIN client_token_storage

C10_Witness ==
    /\ Cardinality(handoffs) = 1
    /\ \A h \in handoffs : h.bundle.session_token # None
    /\ \A r \in Slots : calls[r].pc = "done"

\* C5: the latest validation returned a user id exactly when, at the time of
\* the call, a session with that token existed whose expiry was strictly
\* later, and then the id is that session's owner; for an unknown token or an
\* expiry at or before that time it returned None.
C5_ValidateFailsClosed ==
    validated.token # None =>
        LET live == {s \in sessions : s.token = validated.token
                                       /\ s.expiresAt > validated.at} IN
        /\ live = {} <=> validated.user_id = None
        /\ validated.user_id # None => \E s \in live : s.userId = validated.user_id

\* a session validated at the very instant of its expiry
C5_Witness ==
    /\ validated.user_id = None
    /\ \E s \in sessions : s.token = validated.token /\ s.expiresAt = validated.at

\* The states of a pair that holds a single row, seen from the caller.
OnePendingIn == [NoPair EXCEPT !.in_pending = 1, !.rooms = {None}]
OnePendingOut == [NoPair EXCEPT !.out_pending = 1, !.rooms = {None}]
AcceptedIn(room) == [NoPair EXCEPT !.in_accepted = 1, !.rooms = {room}]
AcceptedOut(room) == [NoPair EXCEPT !.out_accepted = 1, !.rooms = {room}]

\* C2: a send request that starts (runs its duplicate check) while the only row
\* of the pair is a pending request in the opposite direction (friend -> caller,
\* the first request having completed) is refused with
\* RequestAlreadyPending, and that one pending row is all the pair has
\* afterwards.
C2_ReverseRequestRefused ==
    (response.op = "send" /\ response.seen = OnePendingIn)
        => response.result = "RequestAlreadyPending" /\ response.post = OnePendingIn

C2_Witness ==
    /\ response.op = "send" /\ response.user = 2 /\ response.friend = 1
    /\ response.result = "RequestAlreadyPending"
    /\ \E r \in user_friends :
          /\ r.user_id = 1 /\ r.friend_id = 2 /\ r.status = "pending"
          /\ user_friends = {r}

\* C3: an accept answered while the only row of the pair is a pending request
\* friend -> caller makes that row accepted (the pair has no pending row left);
\* an accept answered while the pair's only row is already accepted is refused
\* with RequestNotFound and leaves the row and its conversation reference as
\* they were.
C3_AcceptThenNotFound ==
    response.op = "accept" =>
        /\ response.pre = OnePendingIn =>
              /\ response.result = "Accepted"
              /\ \E room \in 0..MaxRooms : response.post = AcceptedIn(room)
        /\ (\E room \in 0..MaxRooms : response.pre = AcceptedIn(room)) =>
              /\ response.result = "RequestNotFound"
              /\ response.post = response.pre

C3_Witness ==
    /\ response.op = "accept" /\ response.user = 2 /\ response.friend = 1
    /\ response.result = "RequestNotFound"
    /\ response.seen = AcceptedIn(1) /\ response.pre = AcceptedIn(1)
    /\ \E r \in user_friends :
          /\ r.user_id = 1 /\ r.friend_id = 2 /\ r.status = "accepted"
          /\ r.chatroom_id = 1 /\ r.accepts = 1
          /\ user_friends = {r}

\* C4: a delete answered while the pair's only row is accepted (in either
\* direction) removes it and leaves the pair without any row; a send to another
\* existing user that starts while the pair has no row is answered RequestSent
\* and adds one pending row caller -> friend.
C4_RemoveThenSendAgain ==
    /\ (/\ response.op = "delete"
        /\ \E room \in 0..MaxRooms : response.pre \in {AcceptedIn(room), AcceptedOut(room)})
          => response.result = "Deleted" /\ response.post = NoPair
    /\ (/\ response.op = "send" /\ response.seen = NoPair
        /\ response.friend \in UserIds \ {response.user})
          => /\ response.result = "RequestSent"
             /\ response.post = [response.pre EXCEPT !.out_pending = @ + 1,
                                                     !.rooms = @ \cup {None}]

C4_Witness ==
    /\ response.op = "send" /\ response.result = "RequestSent"
    /\ response.seen = NoPair /\ response.pre = NoPair
    /\ response.post = OnePendingOut
    /\ {response.user, response.friend} \in removedAccepted

\* C7: no unordered pair of users has more than one row in user_friends.
C7_OneRowPerPair ==
    \A a, b \in UserIds : Cardinality(PairRows(user_friends, a, b)) <= 1

\* C8: no row was the subject of two accept calls answered "Accepted", and an
\* accept call is answered "Accepted" only when its own update found a pending
\* row friend -> caller; an accept call whose update finds none (another call
\* accepted the row first) is answered RequestNotFound.
C8_OneAcceptPerRow ==
    /\ \A r \in user_friends : r.accepts <= 1
    /\ response.op = "accept" =>
          /\ response.result \in {"Accepted", "RequestNotFound"}
          /\ response.result = "Accepted" <=> response.pre.in_pending > 0

\* two accept calls past the check together, the second answered not found
C8_Witness ==
    /\ response.op = "accept" /\ response.result = "RequestNotFound"
    /\ response.seen = OnePendingIn /\ response.pre.in_pending = 0
    /\ \E r \in user_friends :
          /\ r.user_id = response.friend /\ r.friend_id = response.user
          /\ r.status = "accepted" /\ r.accepts = 1
          /\ user_friends = {r}

\* C11: an accept goes on to provision a conversation space, and is answered
\* "Accepted", only when it found a pending row with exactly the direction
\* friend -> caller; an accept that finds none (such as the requester accepting
\* the request it sent itself) is answered RequestNotFound at the check, before
\* any provisioning, and leaves the rows of the pair as they were.
C11_AcceptNeedsExactDirection ==
    /\ \A w \in Workers :
          workers[w].pc \in {"accept_room", "accept_commit"}
              => workers[w].seen.in_pending >= 1
    /\ response.op = "accept" =>
          /\ response.result = "Accepted" =>
                response.seen.in_pending >= 1 /\ response.pre.in_pending >= 1
          /\ response.seen.in_pending = 0 =>
                /\ response.result = "RequestNotFound"
                /\ response.pre = response.seen /\ response.post = response.seen

\* the requester of the only request accepts it itself
C11_Witness ==
    /\ response.op = "accept" /\ response.user = 1 /\ response.friend = 2
    /\ response.result = "RequestNotFound" /\ response.seen = OnePendingOut
    /\ \E r \in user_friends :
          /\ r.user_id = 1 /\ r.friend_id = 2 /\ r.status = "pending"
          /\ r.chatroom_id = None /\ user_friends = {r}
    /\ chatrooms = {}
    /\ \A w \in Workers : workers[w].pc = "idle"

\* C12: every send that is answered is answered as follows.  A target email of
\* no user: TargetNotFound.  The caller's own email: SelfReferential.  A pair
\* that holds an accepted row in either direction when the duplicate check
\* runs: AlreadyFriends.  None of these answers, nor RequestAlreadyPending,
\* comes with a change of user_friends.  A pair without any row when the check
\* runs: RequestSent, and the call adds exactly one row, pending, caller ->
\* target.
SendFailures ==
    {"TargetNotFound", "SelfReferential", "AlreadyFriends", "RequestAlreadyPending"}

C12_SendOutcomes ==
    [][response'.op = "send" =>
        /\ response'.friend = None <=> response'.result = "TargetNotFound"
        /\ response'.friend = response'.user => response'.result = "SelfReferential"
        /\ (/\ response'.friend \in UserIds \ {response'.user}
            /\ response'.seen.out_accepted + response'.seen.in_accepted > 0)
              => response'.result = "AlreadyFriends"
        /\ response'.result \in SendFailures => user_friends' = user_friends
        /\ (response'.friend \in UserIds \ {response'.user} /\ response'.seen = NoPair)
              => /\ response'.result = "RequestSent"
                 /\ \E r \in user_friends' \ user_friends :
                       /\ r.user_id = response'.user /\ r.friend_id = response'.friend
                       /\ r.status = "pending"
                       /\ user_friends' = user_friends \cup {r}
    ]_vars

\* C13: a reject, and a delete between two different users, that finds a row
\* of the unordered pair is answered Rejected / Deleted and removes the rows of
\* that pair and nothing else; one that finds no row of the pair is answered
\* RelationshipNotFound and leaves user_friends as it was.
C13_RemovalTouchesOnlyThePair ==
    [][(/\ response'.op \in {"reject", "delete"}
        /\ response'.op = "delete" => response'.user # response'.friend)
        => LET pair == PairRows(user_friends, response'.user, response'.friend) IN
           IF pair = {}
           THEN /\ response'.result = "RelationshipNotFound"
                /\ user_friends' = user_friends
           ELSE /\ response'.result = (IF response'.op = "reject" THEN "Rejected"
                                                                 ELSE "Deleted")
                /\ user_friends' = user_friends \ pair
    ]_vars

\* a request rejected while another pair holds a row, which stays
C13_Witness ==
    /\ response.op = "reject" /\ response.result = "Rejected"
    /\ response.user = 2 /\ response.friend = 1
    /\ response.pre = OnePendingIn /\ response.post = NoPair
    /\ \E r \in user_friends :
          /\ r.user_id = 1 /\ r.friend_id = 3 /\ r.status = "pending"
          /\ user_friends = {r}

\* C14: a callback that passed the state check and whose code the provider
\* exchanged ends, also when a step of the persistence chain failed, with the
\* bundle handed over: its answer is the HTML page or the JSON bundle, never an
\* error, the bundle carries the provider token of this exchange, and with the
\* HTML page the bundle is the one stored under the client id of its state (or
\* the one a poll has fetched from there since).
Exchanged(r) == PassedStateCheck(r) /\ calls[r].code = "code_ok"

C14_PersistenceFailureKeepsBundle ==
    \A r \in Slots : (calls[r].pc = "done" /\ Exchanged(r)) =>
        /\ calls[r].response \in {"HTML", "JSON"}
        /\ calls[r].token_data.token = r
        /\ calls[r].response = "HTML" <=> calls[r].state \in DOMAIN pending_clients
        /\ calls[r].response = "HTML" =>
              LET client_id == pending_clients[calls[r].state] IN
              \/ /\ client_id \in DOMAIN client_token_storage
                 /\ client_token_storage[client_id] = calls[r].token_data
              \/ \E h \in handoffs :
                    h.client_id = client_id /\ h.bundle = calls[r].token_data

\* the session insert failed after the user and the account were written
C14_Witness ==
    \E r \in Slots :
        /\ calls[r].pc = "done" /\ calls[r].failed = "session"
        /\ calls[r].response = "HTML"
        /\ calls[r].token_data.token = r /\ calls[r].token_data.session_token = None
        /\ \E u \in users : u.id = calls[r].user
        /\ \E a \in accounts : a.userId = calls[r].user
        /\ \E h \in handoffs : h.bundle = calls[r].token_data

\* C15: create_chatroom either adds one document and hands its id, an id no
\* earlier document carries, to the accept call, or fails and hands it the
\* null reference; an accept call whose update finds the pending row
\* friend -> caller is answered "Accepted" in both cases, and the rows it
\* accepts record exactly the reference that call was handed (null after a
\* failed provisioning).
C15_AcceptSurvivesProvisioning ==
    [][\A w \in Workers :
        /\ (workers[w].pc = "accept_room" /\ workers'[w].pc = "accept_commit") =>
              IF chatrooms' = chatrooms
              THEN workers'[w].chatroom_id = None
              ELSE \E room \in chatrooms' \ chatrooms :
                     /\ chatrooms' = chatrooms \cup {room}
                     /\ room.id = workers'[w].chatroom_id
                     /\ room.id # None /\ \A old \in chatrooms : old.id # room.id
                     /\ room.participants = <<workers[w].user, workers[w].friend>>
        /\ (/\ workers[w].pc = "accept_commit" /\ workers'[w].pc = "idle"
            /\ response'.pre.in_pending >= 1) =>
              /\ response'.result = "Accepted"
              /\ \A r \in DirectedRows(user_friends, workers[w].friend, workers[w].user,
                                        "pending") :
                    \E a \in user_friends' :
                       /\ a.id = r.id /\ a.status = "accepted"
                       /\ a.chatroom_id = workers[w].chatroom_id
    ]_vars

\* a request accepted although no conversation space could be provisioned
C15_Witness ==
    /\ response.op = "accept" /\ response.result = "Accepted"
    /\ response.pre = OnePendingIn /\ response.post = AcceptedIn(None)
    /\ chatrooms = {}
    /\ \E r \in user_friends :
          /\ r.user_id = response.friend /\ r.friend_id = response.user
          /\ r.status = "accepted" /\ r.chatroom_id = None
          /\ user_friends = {r}

\* C16: the token of a request is the one after "Bearer " in the
\* Authorization header when there is one, and the session_token cookie
\* otherwise.  A request of any of the six friend routes is answered 401
\* exactly when it has no token or no session with that token expires
\* strictly later than now, and then the relationship rows, the conversation
\* spaces and the sessions are left as they were; every other request is
\* served as the owner of the session with that token.
ExpectedToken(cred) ==
    IF cred.authorization.scheme = "Bearer" /\ cred.authorization.token # None
    THEN cred.authorization.token ELSE cred.cookie

ExpectedOwners(cred) ==
    {s.userId : s \in {x \in sessions : /\ ExpectedToken(cred) # None
                                         /\ x.token = ExpectedToken(cred)
                                         /\ x.expiresAt > now}}

C16_UnauthorizedFailsClosed ==
    [][/\ (workers' = workers /\ response'.op # "none") =>
             /\ response'.route \in FriendRoutes
             /\ response'.result = "Unauthorized" <=> ExpectedOwners(response'.cred) = {}
             /\ response'.result = "Unauthorized" =>
                   /\ user_friends' = user_friends /\ chatrooms' = chatrooms
                   /\ sessions' = sessions
             /\ response'.result # "Unauthorized" =>
                   response'.user \in ExpectedOwners(response'.cred)
       /\ \A w \in Workers : (workers[w].pc = "idle" /\ workers'[w].pc # "idle") =>
             workers'[w].user \in ExpectedOwners(workers'[w].cred)
    ]_vars

\* an unknown Bearer token is refused although the cookie holds a live one
C16_Witness ==
    /\ response.op = "auth" /\ response.result = "Unauthorized"
    /\ response.route = "delete"
    /\ response.cred.authorization = [scheme |-> "Bearer", token |-> UnknownToken]
    /\ \E s \in sessions : s.token = response.cred.cookie /\ s.expiresAt > now
    /\ user_friends # {}

\* C18: while the only row between two users is an accepted one, in whichever
\* direction it was requested, the friends list of each of the two contains
\* the other with the conversation reference of that row, and the list of
\* incoming requests of neither contains the other.
C18_AcceptedIsSymmetric ==
    \A friend \in UserIds \ {response.user} :
        \A room \in 0..MaxRooms :
            PairState(user_friends, response.user, friend)
                    \in {AcceptedIn(room), AcceptedOut(room)} =>
                /\ response.op = "friends" =>
                      [id |-> friend, chatroom_id |-> room] \in response.body
                /\ response.op = "requests" =>
                      \A e \in response.body : e.id # friend

\* C17: a callback that passed the state check, whose code was exchanged and
\* whose profile carries an email ends with a bundle that names a user with
\* that email and a session token; the one live session with that token
\* belongs to that user, so a GET /friends with it as Bearer token is served as
\* that user, and for a user the callback created it returns the empty list.
C17_BundleOpensEmptyFriendList ==
    \A r \in Slots :
        (calls[r].pc = "done" /\ Exchanged(r) /\ calls[r].profile \in Emails) =>
            LET bundle == calls[r].token_data IN
            /\ bundle.user_id # None /\ bundle.session_token # None
            /\ \E u \in users : u.id = bundle.user_id /\ u.email = calls[r].profile
            /\ {s.userId : s \in LiveSessions(bundle.session_token)} = {bundle.user_id}
            /\ (/\ response.op = "friends"
                /\ response.cred.authorization.token = bundle.session_token) =>
                  /\ response.user = bundle.user_id
                  /\ calls[r].is_new => response.body = {}

C17_Witness ==
    \E r \in Slots :
        /\ calls[r].pc = "done" /\ calls[r].is_new /\ calls[r].response = "HTML"
        /\ response.op = "friends" /\ response.body = {}
        /\ response.cred.authorization.token = calls[r].token_data.session_token
        /\ response.user = calls[r].token_data.user_id
        /\ \E h \in handoffs : h.bundle = calls[r].token_data
        /\ \E q \in Slots : calls[q].pc = "done" /\ calls[q].profile = "b@x"

\* C19: a poll is answered with a bundle, and a bundle is stored under a
\* client id, only after a callback whose state maps to that client id has
\* completed with that bundle (every poll before that is answered pending);
\* when a callback has completed with the HTML page its bundle is stored
\* under the client id of its state until a poll fetches it, and if the client
\* keeps polling a poll is eventually answered with that bundle.
Completed(r) == calls[r].pc = "done" /\ calls[r].response = "HTML"

C19_HandoffReachesPollingClient ==
    /\ [](/\ \A h \in handoffs : \E r \in Slots :
                /\ Completed(r) /\ calls[r].state \in DOMAIN pending_clients
                /\ pending_clients[calls[r].state] = h.client_id
                /\ h.bundle = calls[r].token_data
          /\ \A c \in DOMAIN client_token_storage : \E r \in Slots :
                /\ Completed(r) /\ calls[r].state \in DOMAIN pending_clients
                /\ pending_clients[calls[r].state] = c
                /\ client_token_storage[c] = calls[r].token_data
          /\ \A r \in Slots : Completed(r) =>
                \/ /\ pending_clients[calls[r].state] \in DOMAIN client_token_storage
                   /\ client_token_storage[pending_clients[calls[r].state]]
                          = calls[r].token_data
                \/ \E h \in handoffs : /\ h.client_id = pending_clients[calls[r].state]
                                        /\ h.bundle = calls[r].token_data)
    /\ \A r \in Slots :
          Completed(r) ~> (\E h \in handoffs : h.bundle = calls[r].token_data)

\* the bundle of a completed callback waits in the storage for the next poll
C19_Witness ==
    \E r \in Slots :
        /\ Completed(r) /\ calls[r].token_data.session_token # None
        /\ pending_clients[calls[r].state] \in DOMAIN client_token_storage
        /\ handoffs = {}

\* the clientId -> bundle half: no bundle is left under a client id a poll
\* has been answered for
HandoffBundleConsumed ==
    \A h \in handoffs : h.client_id \notin DOMAIN client_token_storage

\* C20: once a poll has been answered with the bundle of a login, nothing of
\* that login's handoff remains in the process: no bundle is stored under its
\* client id and no csrf state maps to its client id.
C20_HandoffFullyConsumed ==
    /\ HandoffBundleConsumed
    /\ \A h \in handoffs :
          \A s \in DOMAIN pending_clients : pending_clients[s] # h.client_id

\* ------------------------------------------- create_or_update_account
\* The whole of create_or_update_account (services.py:62-147) on the account
\* table with the columns it writes, called with bundles drawn from bounded
\* sets.  refresh_token_expires_in is in no bundle of the program and
\* refreshTokenExpiresAt is left out.

OneHour == 3600

\* datetime.now(timezone.utc) of the call, in seconds
Instants == {100, 200}

\* Python truthiness of a str-or-None value
Truthy(v) == v # NoText /\ v # ""

\* Python truthiness of token_data.get("expires_in")
TruthyExpiresIn(e) ==
    CASE e.kind = "none" -> FALSE
      [] e.kind = "datetime" -> TRUE
      [] e.kind = "number" -> e.n # 0
      [] OTHER -> e.text # ""

\* int(text): the strings it converts; any other raises ValueError
ParseInt == [t \in {"60"} |-> 60]

\* services.py:76-93  access_expires
AccessExpires(expires_in, at) ==
    IF ~TruthyExpiresIn(expires_in) THEN None
    ELSE IF expires_in.kind = "datetime" THEN expires_in.n
    ELSE IF expires_in.kind = "number" THEN at + expires_in.n
    ELSE IF expires_in.text \in DOMAIN ParseInt THEN at + ParseInt[expires_in.text]
    ELSE at + OneHour

\* " ".join(items)
RECURSIVE JoinScopes(_)
JoinScopes(items) ==
    IF Len(items) = 0 THEN ""
    ELSE IF Len(items) = 1 THEN items[1]
    ELSE items[1] \o " " \o JoinScopes(Tail(items))

\* services.py:101-104  scope
ScopeOf(scopes) == IF scopes.list THEN JoinScopes(scopes.items) ELSE NoText

\* the column overwritten with whatever the bundle holds
KeepUnlessSupplied_Overwrite(old, new) == new

\* services.py:135-138, 141-142  if <new>: account.<column> = <new>
KeepUnlessSupplied(old, new) == IF Truthy(new) THEN new ELSE old

\* services.py:117-127  the row of a new account
NewAccount(id, user_id, token_data, at) ==
    [id |-> id, userId |-> user_id, providerId |-> "google",
     accessToken |-> token_data.token,
     refreshToken |-> token_data.refresh_token,
     idToken |-> token_data.id_token,
     accessTokenExpiresAt |-> AccessExpires(token_data.expires_in, at),
     scope |-> ScopeOf(token_data.scopes)]

\* services.py:130-143  the row of an existing account after the update
UpdatedAccount(account, token_data, at) ==
    [account EXCEPT
        !.accessToken = token_data.token,
        !.refreshToken = KeepUnlessSupplied(@, token_data.refresh_token),
        !.idToken = KeepUnlessSupplied(@, token_data.id_token),
        !.accessTokenExpiresAt = AccessExpires(token_data.expires_in, at),
        !.scope = KeepUnlessSupplied(@, ScopeOf(token_data.scopes))]

\* services.py:62-147  create_or_update_account(db, user_id, "google", token_data),
\* from the lookup to the commit; login: the expiry instant of the provider
\* credentials the bundle was made from, None for a bundle made otherwise
UpsertAccount(user_id, token_data, at, login) ==
    /\ LET found == {a \in accounts : a.userId = user_id /\ a.providerId = "google"} IN
       IF found = {}
       THEN LET row == NewAccount(FreshAccountId, user_id, token_data, at) IN
            /\ accounts' = accounts \cup {row}
            /\ upsert' = [user_id |-> user_id, token_data |-> token_data, at |-> at,
                          login |-> login, before |-> NoAccount, after |-> row]
       ELSE \E a \in found :
              LET row == UpdatedAccount(a, token_data, at) IN
              /\ accounts' = (accounts \ {a}) \cup {row}
              /\ upsert' = [user_id |-> user_id, token_data |-> token_data, at |-> at,
                            login |-> login, before |-> a, after |-> row]
    /\ UNCHANGED <<authVars, users, sessions, now, validated, friendVars>>

\* the tokens and scopes a bundle may hold
FieldBundles ==
    [token : {"at1", "at2"}, refresh_token : {NoText, "", "rt1", "rt2"},
     id_token : {NoText, "", "id1"},
     scopes : {NoScopes, [list |-> TRUE, items |-> << >>],
               [list |-> TRUE, items |-> <<"email", "openid">>]},
     expires_in : {NoExpiresIn}]

\* the expiries a bundle may hold: absent, a datetime, a count of seconds
\* (the float 60.0 as the int 60), a string int() converts, one it does not
ExpiresIns ==
    {NoExpiresIn,
     [kind |-> "datetime", n |-> 5000, text |-> ""],
     [kind |-> "datetime", n |-> 9000, text |-> ""],
     [kind |-> "number", n |-> 0, text |-> ""],
     [kind |-> "number", n |-> 60, text |-> ""],
     [kind |-> "number", n |-> 7200, text |-> ""],
     [kind |-> "text", n |-> 0, text |-> "60"],
     [kind |-> "text", n |-> 0, text |-> "soon"]}

ExpiryBundles ==
    [token : {"at1", "at2"}, refresh_token : {NoText}, id_token : {NoText},
     scopes : {NoScopes}, expires_in : ExpiresIns]

\* credentials.expiry of the provider's credentials: an instant, in seconds
CredentialExpiries == {5000, 9000}

\* oauth.py:103  "expires_in": credentials.expiry.timestamp()
Timestamp(expiry) == [kind |-> "number", n |-> expiry, text |-> ""]

\* oauth.py:96-104  token_data of credentials with this token and expiry; the
\* dict has no id_token key
LoginBundle(token, expiry) ==
    [token |-> token, refresh_token |-> NoText, id_token |-> NoText,
     scopes |-> [list |-> TRUE, items |-> <<"email", "openid">>],
     expires_in |-> Timestamp(expiry)]

\* oauth.py:96-104, 121-123  the bundle of a login handed to
\* create_or_update_account
UpsertFromLogin(user_id, at) ==
    \E token \in {"at1", "at2"}, expiry \in CredentialExpiries :
        UpsertAccount(user_id, LoginBundle(token, expiry), at, expiry)

InitAccount ==
    /\ active_states = {} /\ pending_clients = << >> /\ client_token_storage = << >>
    /\ users = {[id |-> 1, email |-> "a@x"]}
    /\ accounts = {} /\ sessions = {} /\ now = 0 /\ nLogins = 0
    /\ calls = [r \in Slots |-> IdleCall]
    /\ handoffs = {}
    /\ validated = NoValidation
    /\ upsert = NoUpsert
    /\ user_friends = {} /\ chatrooms = {}
    /\ workers = [w \in Workers |-> IdleWorker]
    /\ response = NoResponse
    /\ removedAccepted = {}

\* these bundles hold no expiry and the instant of the call plays no part
NextAccountFields ==
    \E u \in UserIds, token_data \in FieldBundles :
        UpsertAccount(u, token_data, 100, None)

SpecAccountFields == InitAccount /\ [][NextAccountFields]_vars

NextAccountExpiry ==
    \/ \E u \in UserIds, token_data \in ExpiryBundles, at \in Instants :
          UpsertAccount(u, token_data, at, None)
    \/ \E u \in UserIds, at \in Instants : UpsertFromLogin(u, at)

SpecAccountExpiry == InitAccount /\ [][NextAccountExpiry]_vars

\* C22: create_or_update_account on an existing account leaves refreshToken,
\* idToken and scope as they were when the bundle holds no non-empty value for
\* them and sets them to the bundle's value when it holds one; accessToken is
\* always the bundle's.
C22_UpdateNeverWritesAbsence ==
    upsert.before # NoAccount =>
        LET td == upsert.token_data
            old == upsert.before
            new == upsert.after IN
        /\ new.accessToken = td.token
        /\ new.refreshToken =
              (IF td.refresh_token \in {NoText, ""} THEN old.refreshToken
               ELSE td.refresh_token)
        /\ new.idToken =
              (IF td.id_token \in {NoText, ""} THEN old.idToken ELSE td.id_token)
        /\ new.scope =
              (IF ~td.scopes.list \/ td.scopes.items = << >> THEN old.scope
               ELSE JoinScopes(td.scopes.items))
        /\ new \in accounts /\ (old = new \/ old \notin accounts)

\* an account with all three columns set, updated from a bundle that holds a
\* new refresh token, an empty id token and no scopes
C22_Witness ==
    /\ upsert.before.refreshToken = "rt1" /\ upsert.token_data.refresh_token = "rt2"
    /\ upsert.before.idToken = "id1" /\ upsert.token_data.id_token = ""
    /\ upsert.before.scope = "email openid" /\ ~upsert.token_data.scopes.list
    /\ upsert.before.accessToken = "at1" /\ upsert.token_data.token = "at2"
    /\ upsert.after.refreshToken = "rt2" /\ upsert.after.idToken = "id1"

\* C23: the accessTokenExpiresAt create_or_update_account stores is the
\* bundle's expiry when that is a datetime, the call's instant plus n seconds
\* when it is a count n of seconds, and the call's instant plus one hour when
\* it cannot be converted; for the bundle of a login it is the expiry instant
\* of the provider's credentials.
C23_StoredExpiry ==
    upsert.user_id # None =>
        LET e == upsert.token_data.expires_in
            stored == upsert.after.accessTokenExpiresAt IN
        /\ (upsert.login = None /\ e.kind = "datetime") => stored = e.n
        /\ (upsert.login = None /\ e.kind = "number") => stored = upsert.at + e.n
        /\ (upsert.login = None /\ e.kind = "text" /\ e.text = "60")
                => stored = upsert.at + 60
        /\ (upsert.login = None /\ e.kind = "text" /\ e.text = "soon")
                => stored = upsert.at + OneHour
        /\ upsert.login # None => stored = upsert.login

\* C24: a callback with a registered state whose token exchange fails has
\* consumed the state and ends with the failure; its step creates no user, no
\* account, no session and no handoff bundle, no bundle is ever stored under
\* or delivered to the client id of its state, and every later callback with
\* the same state is answered InvalidState.
FailedCalls == {r \in Slots : PassedStateCheck(r) /\ calls[r].code = "code_bad"}

C24_FailedExchangeConsumesState ==
    /\ [](\A r \in FailedCalls :
            /\ calls[r].registered
            /\ calls[r].pc = "done" /\ calls[r].response = "ExchangeFailed"
            /\ calls[r].state \notin active_states
            /\ calls[r].user = None /\ calls[r].token_data = NoBundle
            /\ pending_clients[calls[r].state] \notin DOMAIN client_token_storage
            /\ \A h \in handoffs : h.client_id # pending_clients[calls[r].state]
            /\ \A q \in Slots :
                  (q > r /\ calls[q].pc # "idle" /\ calls[q].state = calls[r].state)
                      => calls[q].pc = "done" /\ calls[q].response = "InvalidState")
    /\ [][\A r \in Slots :
            (calls[r].pc = "idle" /\ calls'[r].pc # "idle" /\ calls'[r].code = "code_bad"
                /\ calls'[r].response # "InvalidState") =>
                /\ calls'[r].state \in active_states \ active_states'
                /\ UNCHANGED <<users, accounts, sessions, client_token_storage,
                               handoffs, pending_clients>>]_vars

\* a failed exchange followed by a retry with the same state
C24_Witness ==
    \E r, q \in Slots :
        /\ r < q /\ r \in FailedCalls
        /\ calls[q].state = calls[r].state /\ calls[q].code = "code_ok"
        /\ calls[q].response = "InvalidState"

\* C25: when an accept call that provisioned a conversation space answers,
\* either it answers Accepted and an accepted row between its two participants
\* refers to that space, or the space is not in the collection: a call that
\* ends in RequestNotFound leaves no conversation space behind, also when two
\* accept calls for one pending row interleave.
C25_NoOrphanConversation ==
    [][\A w \in Workers :
          (/\ workers[w].pc = "accept_commit" /\ workers[w].chatroom_id # None
           /\ workers'[w].pc = "idle" /\ response'.op = "accept") =>
             LET room == workers[w].chatroom_id IN
             IF response'.result = "Accepted"
             THEN /\ \E c \in chatrooms' :
                        /\ c.id = room
                        /\ c.participants = <<response'.user, response'.friend>>
                  /\ \E r \in PairRows(user_friends', response'.user, response'.friend) :
                        r.status = "accepted" /\ r.chatroom_id = room
             ELSE \A c \in chatrooms' : c.id # room
      ]_vars

\* C26: with several logins in flight, a bundle is stored under, and returned
\* to a poll of, only the client id that was issued by the login call that
\* issued the state of the callback that made the bundle.
C26_BundleReachesOwnClient ==
    /\ \A c \in DOMAIN client_token_storage :
          LET r == client_token_storage[c].token IN
          /\ r \in Slots /\ calls[r].token_data = client_token_storage[c]
          /\ c = IssuedWith(calls[r].state)
    /\ \A h \in handoffs :
          LET r == h.bundle.token IN
          /\ r \in Slots /\ calls[r].token_data = h.bundle
          /\ h.client_id = IssuedWith(calls[r].state)

\* two logins; the callback of the second completed first; each client has
\* polled and got the bundle of its own login
C26_Witness ==
    /\ nLogins = 2
    /\ calls[1].state = 2 /\ calls[2].state = 1
    /\ \E h \in handoffs : h.client_id = IssuedWith(2) /\ h.bundle.token = 1
    /\ \E h \in handoffs : h.client_id = IssuedWith(1) /\ h.bundle.token = 2

C21_OneAccountPerUserAndProvider ==
    \A a, b \in accounts :
        (a.userId = b.userId /\ a.providerId = b.providerId) => a = b

====
